---- MODULE Spec2Model ----
\* Model of realtime_audio_analyzer.py: the capture callback, the looping WAV
\* reader, the bounded hand-off queue, the rolling history and the run loop
\* of RealTimeAudioApp.
EXTENDS Integers, Sequences, FiniteSets, TLC

\* ------------------------------------------------------------------ sizes
\* The program's sizes, scaled down so that every case is reached.
\* FS is 48000 in the source (line 27).
FS == 4
\* BLOCKSIZE is 2048 in the source (line 28).
BLOCKSIZE == 2
\* HISTORY_SEC is 10 in the source (line 29).
HISTORY_SEC == 1
\* queue.Queue(maxsize=30) in the source (line 99).
QueueMaxsize == 2
\* The Min Hz slider starts at 10 in the source (line 128).
FMIN_DEFAULT == 1
\* Blocks one opened capture stream delivers before the user stops it.
MaxBlocks == 3
\* Iterations of the run loop one start stays running before the user stops it.
MaxTicks == 3

\* Longest history handed to a plot function on its own.
MaxHistory == 3

MODES == <<"FFT", "Waveform", "Spectrogram">>

\* ------------------------------------------------------------------ helpers
Min(a, b) == IF a < b THEN a ELSE b
Max(a, b) == IF a > b THEN a ELSE b
Abs(x) == IF x < 0 THEN -x ELSE x

\* Python slice s[a:b] for 0 <= a, 0 <= b (indices past the end are clipped).
Slice(s, a, b) == SubSeq(s, a + 1, Min(b, Len(s)))

\* The first n elements of s (all of s when it is shorter).
Take(s, n) == SubSeq(s, 1, Min(n, Len(s)))

RECURSIVE MaxAbs(_)
MaxAbs(s) == IF s = <<>> THEN 0 ELSE Max(Abs(Head(s)), MaxAbs(Tail(s)))

RECURSIVE SumSeq(_)
SumSeq(s) == IF s = <<>> THEN 0 ELSE Head(s) + SumSeq(Tail(s))

\* The samples of a sequence of chunks, in order.
RECURSIVE Flatten(_)
Flatten(qq) == IF qq = <<>> THEN <<>> ELSE Head(qq) \o Flatten(Tail(qq))

\* ------------------------------------------------------------------ environment
\* The contents of wav_files/. What wavfile.read returns for each file:
\* readable FALSE is a file wavfile.read raises on; ndim is the rank of the
\* array it returns (1 mono, 2 multi-channel); data are the frames.
WavNames == {"short.wav", "loop.wav", "empty.wav", "bad.wav"}

WavFile(name) ==
    CASE name = "short.wav" -> [readable |-> TRUE, rate |-> 1, ndim |-> 1, data |-> <<0>>]
      [] name = "loop.wav"  -> [readable |-> TRUE, rate |-> 2, ndim |-> 2,
                                data |-> << <<1, 7>>, <<-2, 7>>, <<3, 7>>, <<-4, 7>>, <<2, 7>> >>]
      [] name = "empty.wav" -> [readable |-> TRUE, rate |-> 3, ndim |-> 1, data |-> <<>>]
      [] OTHER              -> [readable |-> FALSE, rate |-> 0, ndim |-> 1, data |-> <<>>]

\* An entry of the Audio Source combo, kept as the text before its first ":"
\* (head), whether it has a ":" at all, and the text after ": " (rest).
WavEntry(f) == [head |-> "WAV", colon |-> TRUE, rest |-> f]
MicEntry(i, n) == [head |-> i, colon |-> TRUE, rest |-> n]
NoDevices == [head |-> "No Devices Found", colon |-> FALSE, rest |-> ""]

\* _device_list(): wav entries, then input devices, or the placeholder entry
\* when both are empty. Two machines: one with files and a microphone, one
\* with neither.
DeviceLists ==
    { << WavEntry("short.wav"), WavEntry("loop.wav"), WavEntry("empty.wav"),
         WavEntry("bad.wav"), MicEntry("0", "Mic") >>,
      << NoDevices >> }

\* src.startswith("WAV:")
StartsWithWAV(src) == src.colon /\ src.head = "WAV"

\* int(src.split(":")[0]): the number, or -1 for a ValueError.
ParseInt(src) ==
    CASE src.head = "0" -> 0
      [] src.head = "1" -> 1
      [] OTHER -> -1

\* What opening the capture device can do: sd.InputStream(...) raises,
\* stream.start() raises, or both succeed.
OpenOutcomes == {"ok", "openFail", "startFail"}

\* ------------------------------------------------------------------ state
VARIABLES
    q,          \* RealTimeAudioApp.q: the chunks in the queue, oldest first
    audio,      \* RealTimeAudioApp.audio: the source object (kind "None" for None)
    fs,         \* RealTimeAudioApp.fs
    history,    \* RealTimeAudioApp.history: the deque's content, oldest first
    maxlen,     \* the deque's maxlen
    running,    \* RealTimeAudioApp.running
    win,        \* the widgets' values: SRC, MODE, FMIN, FMAX, TOGGLE (button text)
    ev, val,    \* what win.read returned for the iteration in progress
    pc,         \* position of the run loop
    pa,         \* the sound driver: streams open and streams delivering blocks
    devices,    \* the list _device_list() returned at construction
    blocks,     \* blocks the open capture stream has delivered
    ticks,      \* loop iterations since the last start
    offered,    \* queue content after the last get, then every chunk put since
    extended,   \* every sample given to history.extend since the deque was made
    lastPump,   \* the last pump() call: cursor before, chunk offered, cursor after
    lastStart,  \* how the last _start ended
    shown,      \* the analysis call of this iteration
    leftover,   \* the samples that were in the queue when the deque was made
    produced,   \* the samples of every chunk the queue accepted since then
    lastCall    \* the last call made on a source object on its own, and the state before it

vars == << q, audio, fs, history, maxlen, running, win, ev, val, pc, pa,
           devices, blocks, ticks, offered, extended, lastPump, lastStart, shown,
           leftover, produced, lastCall >>

\* ------------------------------------------------------------------ objects
\* self.audio = None
NoAudio ==
    [kind |-> "None", device_idx |-> 0, filepath |-> "", stream |-> "None",
     running |-> FALSE, ptr |-> 0, loaded |-> FALSE, data |-> <<>>, fs |-> 0]

\* AudioStream.__init__
NewAudioStream(device_idx, rate) ==
    [NoAudio EXCEPT !.kind = "mic", !.device_idx = device_idx, !.fs = rate]

\* LoopingWavStream.__init__ (loaded is "data is not None")
NewLoopingWavStream(filepath) ==
    [NoAudio EXCEPT !.kind = "wav", !.filepath = filepath, !.fs = FS]

NoPump == [called |-> FALSE, running |-> FALSE, c |-> 0, chunk |-> <<>>, after |-> 0, len |-> 0]
NoCall == [op |-> "", audio |-> NoAudio, pa |-> [open |-> 0, active |-> 0], q |-> <<>>]
NoShown ==
    [called |-> FALSE, mode |-> "", FMIN |-> 0, FMAX |-> 0, fs |-> 0, result |-> FALSE,
     lo |-> 0, hi |-> 0, t |-> <<>>]

\* ------------------------------------------------------------------ queue
\* A put that makes room on a full queue by dropping the oldest chunk.
PutNowaitDropsOldest(qq, chunk) ==
    IF Len(qq) >= QueueMaxsize THEN Append(Tail(qq), chunk) ELSE Append(qq, chunk)

\* A put that adds the chunk at the head of the queue.
PutNowaitInFront(qq, chunk) ==
    IF Len(qq) >= QueueMaxsize THEN qq ELSE << chunk >> \o qq

\* queue.Queue.put_nowait with the queue.Full handler of the callers: the
\* queue after the call.
PutNowait(qq, chunk) ==
    IF Len(qq) >= QueueMaxsize THEN qq ELSE Append(qq, chunk)

\* ------------------------------------------------------------------ deque
\* An extend that keeps what the full deque holds and drops the new samples.
RECURSIVE DequeExtendDropsNew(_, _, _)
DequeExtendDropsNew(h, m, xs) ==
    IF xs = <<>> THEN h
    ELSE IF Len(h) >= m THEN h
    ELSE DequeExtendDropsNew(h \o << Head(xs) >>, m, Tail(xs))

\* deque(maxlen=m).extend(xs): append one by one, dropping from the left
\* when the deque is full.
RECURSIVE DequeExtend(_, _, _)
DequeExtend(h, m, xs) ==
    IF xs = <<>> THEN h
    ELSE IF m = 0 THEN h
    ELSE DequeExtend((IF Len(h) >= m THEN Tail(h) ELSE h) \o << Head(xs) >>, m, Tail(xs))

\* ------------------------------------------------------------------ AudioStream
\* indata of one callback: BLOCKSIZE frames of one channel. A frame's value
\* is its index in the stream, so that chunks can be told apart.
Indata(n) == [i \in 1..BLOCKSIZE |-> << n * BLOCKSIZE + i >>]

\* np.mean(indata, axis=1): a sample is kept as <<numerator, denominator>>.
MeanAxis1(indata) == [i \in 1..Len(indata) |-> << SumSeq(indata[i]), Len(indata[i]) >>]

\* A start that opens a stream whether or not the object holds one.
AudioStreamStartReopens(a, p, o) ==
    CASE o = "openFail" ->
            [obj |-> a, pa |-> p, raised |-> TRUE]
      [] o = "startFail" ->
            [obj |-> [a EXCEPT !.stream = "open"],
             pa |-> [p EXCEPT !.open = @ + 1], raised |-> TRUE]
      [] OTHER ->
            [obj |-> [a EXCEPT !.stream = "active"],
             pa |-> [open |-> p.open + 1, active |-> p.active + 1], raised |-> FALSE]

\* AudioStream.start when the driver answers with outcome o: the object and
\* the driver afterwards, and whether an exception leaves start().
AudioStreamStart(a, p, o) ==
    IF a.stream # "None" THEN [obj |-> a, pa |-> p, raised |-> FALSE]
    ELSE CASE o = "openFail" ->
                [obj |-> a, pa |-> p, raised |-> TRUE]
           [] o = "startFail" ->
                [obj |-> [a EXCEPT !.stream = "open"],
                 pa |-> [p EXCEPT !.open = @ + 1], raised |-> TRUE]
           [] OTHER ->
                [obj |-> [a EXCEPT !.stream = "active"],
                 pa |-> [open |-> p.open + 1, active |-> p.active + 1], raised |-> FALSE]

\* A stop that forgets the stream without stopping and closing it.
AudioStreamStopLeaks(a, p) ==
    [obj |-> [a EXCEPT !.stream = "None"], pa |-> p]

\* AudioStream.stop: the object and the driver afterwards.
AudioStreamStop(a, p) ==
    IF a.stream # "None"
    THEN [obj |-> [a EXCEPT !.stream = "None"],
          pa |-> [open |-> p.open - 1,
                  active |-> p.active - (IF a.stream = "active" THEN 1 ELSE 0)]]
    ELSE [obj |-> a, pa |-> p]

\* ------------------------------------------------------------------ LoopingWavStream
\* data[:,0] when data.ndim > 1
FirstChannel(f) ==
    IF f.ndim > 1 THEN [i \in 1..Len(f.data) |-> f.data[i][1]] ELSE f.data

\* data.astype(np.float32), then self.data /= mx
AsFloat(d) == [i \in 1..Len(d) |-> << d[i], 1 >>]
DivideBy(d, mx) == [i \in 1..Len(d) |-> << d[i][1], d[i][2] * mx >>]

\* np.max(np.abs(self.data)) or 1.0
PeakOrOne(d) == IF MaxAbs(d) = 0 THEN 1 ELSE MaxAbs(d)

\* A start that loads the samples but keeps the rate of the constructor.
WavStartKeepsRate(a) ==
    LET f == WavFile(a.filepath)
        d == FirstChannel(f)
    IN  IF ~f.readable \/ d = <<>> THEN a
        ELSE [a EXCEPT !.loaded = TRUE, !.data = DivideBy(AsFloat(d), PeakOrOne(d)),
                       !.running = TRUE]

\* LoopingWavStream.start: the object afterwards. wavfile.read raising, or
\* np.max raising on an array of no samples, ends in the except clause with
\* whatever was assigned until then.
WavStart(a) ==
    LET f == WavFile(a.filepath)
        d == FirstChannel(f)
    IN  IF ~f.readable THEN a
        ELSE IF d = <<>>
             THEN [a EXCEPT !.fs = f.rate, !.loaded = TRUE, !.data = <<>>]
             ELSE [a EXCEPT !.fs = f.rate, !.loaded = TRUE,
                            !.data = DivideBy(AsFloat(d), PeakOrOne(d)),
                            !.running = TRUE]

\* LoopingWavStream.stop
WavStop(a) == [a EXCEPT !.running = FALSE]

\* A pump that, at the end of the buffer, emits the tail only and rewinds.
WavPumpNoHead(a, qq) ==
    IF ~a.running \/ ~a.loaded
    THEN [obj |-> a, q |-> qq, put |-> FALSE, chunk |-> <<>>]
    ELSE LET end == a.ptr + BLOCKSIZE
             L == Len(a.data)
         IN  IF end >= L
             THEN LET chunk == Slice(a.data, a.ptr, L)
                  IN  [obj |-> [a EXCEPT !.ptr = 0],
                       q |-> PutNowait(qq, chunk), put |-> TRUE, chunk |-> chunk]
             ELSE LET chunk == Slice(a.data, a.ptr, end)
                  IN  [obj |-> [a EXCEPT !.ptr = end],
                       q |-> PutNowait(qq, chunk), put |-> TRUE, chunk |-> chunk]

\* A pump that, at the end of the buffer, takes one buffer length off the
\* cursor instead of the remainder.
WavPumpNoModulo(a, qq) ==
    IF ~a.running \/ ~a.loaded
    THEN [obj |-> a, q |-> qq, put |-> FALSE, chunk |-> <<>>]
    ELSE LET end == a.ptr + BLOCKSIZE
             L == Len(a.data)
         IN  IF end >= L
             THEN LET chunk == Slice(a.data, a.ptr, L) \o Slice(a.data, 0, end - L)
                  IN  [obj |-> [a EXCEPT !.ptr = end - L],
                       q |-> PutNowait(qq, chunk), put |-> TRUE, chunk |-> chunk]
             ELSE LET chunk == Slice(a.data, a.ptr, end)
                  IN  [obj |-> [a EXCEPT !.ptr = end],
                       q |-> PutNowait(qq, chunk), put |-> TRUE, chunk |-> chunk]

\* A pump that delivers whenever samples are loaded, running or not.
WavPumpIgnoresRunning(a, qq) ==
    IF ~a.loaded \/ a.data = <<>>
    THEN [obj |-> a, q |-> qq, put |-> FALSE, chunk |-> <<>>]
    ELSE LET end == a.ptr + BLOCKSIZE
             L == Len(a.data)
         IN  IF end >= L
             THEN LET chunk == Slice(a.data, a.ptr, L) \o Slice(a.data, 0, end % L)
                  IN  [obj |-> [a EXCEPT !.ptr = end % L],
                       q |-> PutNowait(qq, chunk), put |-> TRUE, chunk |-> chunk]
             ELSE LET chunk == Slice(a.data, a.ptr, end)
                  IN  [obj |-> [a EXCEPT !.ptr = end],
                       q |-> PutNowait(qq, chunk), put |-> TRUE, chunk |-> chunk]

\* LoopingWavStream.pump: the object and the queue afterwards, and the
\* chunk given to put_nowait.
WavPump(a, qq) ==
    IF ~a.running \/ ~a.loaded
    THEN [obj |-> a, q |-> qq, put |-> FALSE, chunk |-> <<>>]
    ELSE LET end == a.ptr + BLOCKSIZE
             L == Len(a.data)
         IN  IF end >= L
             THEN LET chunk == Slice(a.data, a.ptr, L) \o Slice(a.data, 0, end % L)
                  IN  [obj |-> [a EXCEPT !.ptr = end % L],
                       q |-> PutNowait(qq, chunk), put |-> TRUE, chunk |-> chunk]
             ELSE LET chunk == Slice(a.data, a.ptr, end)
                  IN  [obj |-> [a EXCEPT !.ptr = end],
                       q |-> PutNowait(qq, chunk), put |-> TRUE, chunk |-> chunk]

\* ------------------------------------------------------------------ RealTimeAudioApp
\* The sliders' range (0, FS//2)
SliderRange == 0..(FS \div 2)

\* RealTimeAudioApp._stop: self.audio.stop() for either kind of source.
StopSource(a, p) ==
    CASE a.kind = "mic" -> AudioStreamStop(a, p)
      [] a.kind = "wav" -> [obj |-> WavStop(a), pa |-> p]
      [] OTHER -> [obj |-> a, pa |-> p]

\* deque(maxlen=HISTORY_SEC * self.fs)
HistoryMaxlen(rate) == HISTORY_SEC * rate

\* A clamp that moves the other slider to the edited one.
ClampSlidersMovesOther(w, e, v) ==
    LET w1 == IF e = "FMIN" /\ v.FMIN > v.FMAX THEN [w EXCEPT !.FMAX = v.FMIN] ELSE w
    IN  IF e = "FMAX" /\ v.FMAX < v.FMIN THEN [w1 EXCEPT !.FMIN = v.FMAX] ELSE w1

\* The slider values after the clamp of run() for event e and values v.
ClampSliders(w, e, v) ==
    LET w1 == IF e = "FMIN" /\ v.FMIN > v.FMAX THEN [w EXCEPT !.FMIN = v.FMAX] ELSE w
    IN  IF e = "FMAX" /\ v.FMAX < v.FMIN THEN [w1 EXCEPT !.FMAX = v.FMIN] ELSE w1

\* The values of the widgets, as win.read returns them.
Values(w) == [SRC |-> w.SRC, MODE |-> w.MODE, FMIN |-> w.FMIN, FMAX |-> w.FMAX]

\* ev and val between two iterations, where the code does not read them.
NoEvent == ""
NoVal == [SRC |-> NoDevices, MODE |-> "", FMIN |-> 0, FMAX |-> 0]

Init ==
    /\ q = <<>>
    /\ audio = NoAudio
    /\ fs = FS
    /\ history = <<>>
    /\ maxlen = HistoryMaxlen(FS)
    /\ running = FALSE
    /\ devices \in DeviceLists
    /\ win = [SRC |-> devices[1], MODE |-> "FFT", FMIN |-> FMIN_DEFAULT,
              FMAX |-> FS \div 2, TOGGLE |-> "Start"]
    /\ ev = NoEvent
    /\ val = NoVal
    /\ pc = "read"
    /\ pa = [open |-> 0, active |-> 0]
    /\ blocks = 0
    /\ ticks = 0
    /\ offered = <<>>
    /\ extended = <<>>
    /\ lastPump = NoPump
    /\ lastStart = "none"
    /\ shown = NoShown
    /\ leftover = <<>>
    /\ produced = <<>>
    /\ lastCall = NoCall

\* What every win.read forgets of the iteration before.
NewIteration ==
    /\ lastPump' = NoPump
    /\ lastStart' = "none"
    /\ shown' = NoShown

\* The session goes on: the user has not yet let it run for MaxTicks iterations.
MayGoOn == ~(running /\ ticks >= MaxTicks)

\* The user picks another entry of the Audio Source combo (no event). The
\* entry is read by _start only, so picking it is left to the time the
\* program is not running.
SelectSource ==
    /\ pc = "read" /\ ~running
    /\ \E i \in 1..Len(devices) :
          /\ win.SRC # devices[i]
          /\ win' = [win EXCEPT !.SRC = devices[i]]
    /\ UNCHANGED << q, audio, fs, history, maxlen, running, ev, val, pc, pa, devices,
                    blocks, ticks, offered, extended, lastPump, lastStart, shown >>
    /\ UNCHANGED << leftover, produced, lastCall >>

\* The user picks another entry of the Mode combo (no event).
SelectMode ==
    /\ pc = "read"
    /\ \E i \in 1..Len(MODES) :
          /\ win.MODE # MODES[i]
          /\ win' = [win EXCEPT !.MODE = MODES[i]]
    /\ UNCHANGED << q, audio, fs, history, maxlen, running, ev, val, pc, pa, devices,
                    blocks, ticks, offered, extended, lastPump, lastStart, shown >>
    /\ UNCHANGED << leftover, produced, lastCall >>

\* win.read(timeout=40) times out: no handler runs.
ReadTimeout ==
    /\ pc = "read" /\ MayGoOn
    /\ val' = Values(win)
    /\ ev' = "__TIMEOUT__"
    /\ pc' = "tick"
    /\ NewIteration
    /\ UNCHANGED << q, audio, fs, history, maxlen, running, win, pa, devices,
                    blocks, ticks, offered, extended >>
    /\ UNCHANGED << leftover, produced, lastCall >>

\* win.read returns "FMIN" with the slider at x, then lines 151-152.
ReadFMIN ==
    /\ pc = "read" /\ MayGoOn
    /\ \E x \in SliderRange :
          LET w == [win EXCEPT !.FMIN = x]
          IN  /\ val' = Values(w)
              /\ ev' = "FMIN"
              /\ win' = ClampSliders(w, "FMIN", Values(w))
    /\ pc' = "tick"
    /\ NewIteration
    /\ UNCHANGED << q, audio, fs, history, maxlen, running, pa, devices,
                    blocks, ticks, offered, extended >>
    /\ UNCHANGED << leftover, produced, lastCall >>

\* win.read returns "FMAX" with the slider at x, then lines 153-154.
ReadFMAX ==
    /\ pc = "read" /\ MayGoOn
    /\ \E x \in SliderRange :
          LET w == [win EXCEPT !.FMAX = x]
          IN  /\ val' = Values(w)
              /\ ev' = "FMAX"
              /\ win' = ClampSliders(w, "FMAX", Values(w))
    /\ pc' = "tick"
    /\ NewIteration
    /\ UNCHANGED << q, audio, fs, history, maxlen, running, pa, devices,
                    blocks, ticks, offered, extended >>
    /\ UNCHANGED << leftover, produced, lastCall >>

\* win.read returns sg.WIN_CLOSED or "Exit": self._stop(); break; self.win.close()
Exit ==
    /\ pc = "read"
    /\ LET s == StopSource(audio, pa)
       IN  /\ pa' = s.pa
           /\ audio' = NoAudio
    /\ running' = FALSE
    /\ win' = [win EXCEPT !.TOGGLE = "Start"]
    /\ val' = Values(win)
    /\ ev' = "Exit"
    /\ pc' = "closed"
    /\ NewIteration
    /\ UNCHANGED << q, fs, history, maxlen, devices, blocks, ticks, offered, extended >>
    /\ UNCHANGED << leftover, produced, lastCall >>

\* win.read returns "TOGGLE" while running: RealTimeAudioApp._stop
ToggleStop ==
    /\ pc = "read" /\ running
    /\ LET s == StopSource(audio, pa)
       IN  /\ pa' = s.pa
           /\ audio' = NoAudio
    /\ running' = FALSE
    /\ win' = [win EXCEPT !.TOGGLE = "Start"]
    /\ val' = Values(win)
    /\ ev' = "TOGGLE"
    /\ pc' = "tick"
    /\ NewIteration
    /\ UNCHANGED << q, fs, history, maxlen, devices, blocks, ticks, offered, extended >>
    /\ UNCHANGED << leftover, produced, lastCall >>

\* win.read returns "TOGGLE" while not running: _start with a WAV entry.
StartWav ==
    /\ pc = "read" /\ ~running
    /\ StartsWithWAV(win.SRC)
    /\ LET s == StopSource(audio, pa)
           a == WavStart(NewLoopingWavStream(win.SRC.rest))
       IN  /\ pa' = s.pa
           /\ audio' = a
           /\ fs' = a.fs
           /\ maxlen' = HistoryMaxlen(a.fs)
           /\ lastStart' = IF a.running THEN "ok" ELSE "loadFailed"
    /\ history' = <<>>
    /\ extended' = <<>>
    /\ running' = TRUE
    /\ win' = [win EXCEPT !.TOGGLE = "Stop"]
    /\ val' = Values(win)
    /\ ev' = "TOGGLE"
    /\ ticks' = 0
    /\ pc' = "tick"
    /\ lastPump' = NoPump
    /\ shown' = NoShown
    /\ UNCHANGED << q, devices, blocks, offered >>
    /\ leftover' = Flatten(q)
    /\ produced' = <<>>
    /\ UNCHANGED lastCall

\* _start with an entry that is not a WAV entry and whose text before ":" is
\* no number: int() raises ValueError out of _start and out of run().
StartBadEntry ==
    /\ pc = "read" /\ ~running
    /\ ~StartsWithWAV(win.SRC)
    /\ ParseInt(win.SRC) < 0
    /\ LET s == StopSource(audio, pa)
       IN  /\ pa' = s.pa
           /\ audio' = NoAudio
    /\ running' = FALSE
    /\ win' = [win EXCEPT !.TOGGLE = "Start"]
    /\ val' = Values(win)
    /\ ev' = "TOGGLE"
    /\ lastStart' = "noSource"
    /\ pc' = "crashed"
    /\ lastPump' = NoPump
    /\ shown' = NoShown
    /\ UNCHANGED << q, fs, history, maxlen, devices, blocks, ticks, offered, extended >>
    /\ UNCHANGED << leftover, produced, lastCall >>

\* _start with a device entry: the capture stream opens and starts.
StartMic ==
    /\ pc = "read" /\ ~running
    /\ ~StartsWithWAV(win.SRC)
    /\ ParseInt(win.SRC) >= 0
    /\ LET s == StopSource(audio, pa)
           r == AudioStreamStart(NewAudioStream(ParseInt(win.SRC), FS), s.pa, "ok")
       IN  /\ pa' = r.pa
           /\ audio' = r.obj
    /\ fs' = FS
    /\ maxlen' = HistoryMaxlen(FS)
    /\ history' = <<>>
    /\ extended' = <<>>
    /\ running' = TRUE
    /\ win' = [win EXCEPT !.TOGGLE = "Stop"]
    /\ val' = Values(win)
    /\ ev' = "TOGGLE"
    /\ lastStart' = "ok"
    /\ blocks' = 0
    /\ ticks' = 0
    /\ pc' = "tick"
    /\ lastPump' = NoPump
    /\ shown' = NoShown
    /\ UNCHANGED << q, devices, offered >>
    /\ leftover' = Flatten(q)
    /\ produced' = <<>>
    /\ UNCHANGED lastCall

\* _start with a device entry the driver refuses: sd.InputStream(...) or
\* stream.start() raises out of AudioStream.start, _start and run().
StartMicFails ==
    /\ pc = "read" /\ ~running
    /\ ~StartsWithWAV(win.SRC)
    /\ ParseInt(win.SRC) >= 0
    /\ \E o \in OpenOutcomes \ {"ok"} :
          LET s == StopSource(audio, pa)
              r == AudioStreamStart(NewAudioStream(ParseInt(win.SRC), FS), s.pa, o)
          IN  /\ pa' = r.pa
              /\ audio' = r.obj
              /\ lastStart' = o
    /\ fs' = FS
    /\ running' = FALSE
    /\ win' = [win EXCEPT !.TOGGLE = "Start"]
    /\ val' = Values(win)
    /\ ev' = "TOGGLE"
    /\ pc' = "crashed"
    /\ lastPump' = NoPump
    /\ shown' = NoShown
    /\ UNCHANGED << q, history, maxlen, devices, blocks, ticks, offered, extended >>
    /\ UNCHANGED << leftover, produced, lastCall >>

\* if self.running: if isinstance(self.audio, LoopingWavStream): self.audio.pump()
Pump ==
    /\ pc = "tick" /\ running
    /\ IF audio.kind = "wav"
       THEN LET r == WavPump(audio, q)
            IN  /\ audio' = r.obj
                /\ q' = r.q
                /\ offered' = IF r.put THEN Append(offered, r.chunk) ELSE offered
                /\ lastPump' = [called |-> TRUE, running |-> audio.running, c |-> audio.ptr,
                                chunk |-> r.chunk, after |-> r.obj.ptr, len |-> Len(audio.data)]
       ELSE UNCHANGED << audio, q, offered, lastPump >>
    /\ ticks' = ticks + 1
    /\ pc' = "collect"
    /\ UNCHANGED << fs, history, maxlen, running, win, ev, val, pa, devices,
                    blocks, extended, lastStart, shown >>
    /\ produced' = IF audio.kind = "wav" /\ WavPump(audio, q).put /\ Len(q) < QueueMaxsize
                    THEN produced \o WavPump(audio, q).chunk ELSE produced
    /\ UNCHANGED << leftover, lastCall >>

\* The rest of the iteration is skipped while not running.
SkipTick ==
    /\ pc = "tick" /\ ~running
    /\ pc' = "read"
    /\ val' = NoVal
    /\ ev' = NoEvent
    /\ UNCHANGED << q, audio, fs, history, maxlen, running, win, pa, devices,
                    blocks, ticks, offered, extended, lastPump, lastStart, shown >>
    /\ UNCHANGED << leftover, produced, lastCall >>

\* _collect_audio, one turn of its loop: self.history.extend(self.q.get_nowait())
CollectGet ==
    /\ pc = "collect" /\ q # <<>>
    /\ history' = DequeExtend(history, maxlen, Head(q))
    /\ extended' = extended \o Head(q)
    /\ q' = Tail(q)
    /\ offered' = Tail(q)
    /\ UNCHANGED << audio, fs, maxlen, running, win, ev, val, pc, pa, devices,
                    blocks, ticks, lastPump, lastStart, shown >>
    /\ UNCHANGED << leftover, produced, lastCall >>

\* _collect_audio: get_nowait raises queue.Empty and the loop ends.
CollectEmpty ==
    /\ pc = "collect" /\ q = <<>>
    /\ pc' = "draw"
    /\ UNCHANGED << q, audio, fs, history, maxlen, running, win, ev, val, pa, devices,
                    blocks, ticks, offered, extended, lastPump, lastStart, shown >>
    /\ UNCHANGED << leftover, produced, lastCall >>

\* np.linspace(start, stop, num) on fractions <<numerator, denominator>>:
\* one sample gives [start]; more give num evenly spaced values from start
\* to stop, both included.
Linspace(start, stop, num) ==
    IF num = 1 THEN << start >>
    ELSE [i \in 1..num |->
            << start[1] * stop[2] * (num - 1) + (i - 1) * (stop[1] * start[2] - start[1] * stop[2]),
               start[2] * stop[2] * (num - 1) >>]

\* What a plot function that returned early leaves: nothing drawn.
NoPlot == [result |-> FALSE, lo |-> 0, hi |-> 0, t |-> <<>>]

\* A _plot_spec that compares the history with the capture rate FS.
PlotSpecUsesFS(h, v, rate) ==
    IF Len(h) < FS THEN NoPlot
    ELSE [result |-> TRUE, lo |-> Max(0, v.FMIN), hi |-> Min(rate \div 2, v.FMAX), t |-> <<>>]

\* _plot_fft: the early return, and the limits of the frequency axis.
PlotFft(h, v, rate) ==
    IF Len(h) < BLOCKSIZE THEN NoPlot
    ELSE [result |-> TRUE, lo |-> v.FMIN, hi |-> Max(v.FMAX, v.FMIN + 1), t |-> <<>>]

\* _plot_wave: the early return, and the time of every sample drawn.
PlotWave(h, v, rate) ==
    IF h = <<>> THEN NoPlot
    ELSE [result |-> TRUE, lo |-> 0, hi |-> 0,
          t |-> Linspace(<< -Len(h), rate >>, << 0, 1 >>, Len(h))]

\* _plot_spec: the early return, and the limits of the frequency axis.
PlotSpec(h, v, rate) ==
    IF Len(h) < rate THEN NoPlot
    ELSE [result |-> TRUE, lo |-> Max(0, v.FMIN), hi |-> Min(rate \div 2, v.FMAX), t |-> <<>>]

\* _draw(val): the plot function of val["MODE"] is called with val.
Plot(h, v, rate) ==
    CASE v.MODE = "FFT" -> PlotFft(h, v, rate)
      [] v.MODE = "Waveform" -> PlotWave(h, v, rate)
      [] OTHER -> PlotSpec(h, v, rate)

\* _draw(val), last step of a running iteration.
Draw ==
    /\ pc = "draw"
    /\ LET p == Plot(history, val, fs)
       IN  shown' = [called |-> TRUE, mode |-> val.MODE, FMIN |-> val.FMIN, FMAX |-> val.FMAX,
                     fs |-> fs, result |-> p.result, lo |-> p.lo, hi |-> p.hi, t |-> p.t]
    /\ val' = NoVal
    /\ ev' = NoEvent
    /\ pc' = "read"
    /\ UNCHANGED << q, audio, fs, history, maxlen, running, win, pa, devices,
                    blocks, ticks, offered, extended, lastPump, lastStart >>
    /\ UNCHANGED << leftover, produced, lastCall >>

\* AudioStream.audio_callback, on the driver's thread, while the stream runs.
AudioCallback ==
    /\ pa.active > 0
    /\ pc \notin {"closed", "crashed"}
    /\ blocks < MaxBlocks
    /\ LET chunk == MeanAxis1(Indata(blocks))
       IN  /\ q' = PutNowait(q, chunk)
           /\ offered' = Append(offered, chunk)
    /\ blocks' = blocks + 1
    /\ UNCHANGED << audio, fs, history, maxlen, running, win, ev, val, pc, pa, devices,
                    ticks, extended, lastPump, lastStart, shown >>
    /\ produced' = IF Len(q) < QueueMaxsize
                    THEN produced \o MeanAxis1(Indata(blocks)) ELSE produced
    /\ UNCHANGED << leftover, lastCall >>

Next ==
    \/ SelectSource
    \/ SelectMode
    \/ ReadTimeout
    \/ ReadFMIN
    \/ ReadFMAX
    \/ Exit
    \/ ToggleStop
    \/ StartWav
    \/ StartBadEntry
    \/ StartMic
    \/ StartMicFails
    \/ Pump
    \/ SkipTick
    \/ CollectGet
    \/ CollectEmpty
    \/ Draw
    \/ AudioCallback

Spec == Init /\ [][Next]_vars

\* ------------------------------------------------------------------ a session that never ends
\* The loop from the moment _start has returned with self.running True, for
\* every entry and mode, left to run for ever: no stop, no exit, no bound on
\* the ticks or on the blocks the driver delivers. The counters and the
\* records of what was put and extended are not kept here.
LiveInit ==
    /\ devices \in DeviceLists
    /\ \E i \in 1..Len(devices), m \in 1..Len(MODES) :
          win = [SRC |-> devices[i], MODE |-> MODES[m], FMIN |-> FMIN_DEFAULT,
                 FMAX |-> FS \div 2, TOGGLE |-> "Stop"]
    /\ \/ /\ StartsWithWAV(win.SRC)
          /\ audio = WavStart(NewLoopingWavStream(win.SRC.rest))
          /\ pa = [open |-> 0, active |-> 0]
       \/ /\ ~StartsWithWAV(win.SRC)
          /\ ParseInt(win.SRC) >= 0
          /\ audio = AudioStreamStart(NewAudioStream(ParseInt(win.SRC), FS),
                                      [open |-> 0, active |-> 0], "ok").obj
          /\ pa = [open |-> 1, active |-> 1]
    /\ fs = audio.fs
    /\ maxlen = HistoryMaxlen(fs)
    /\ history = <<>>
    /\ q = <<>>
    /\ running = TRUE
    /\ val = Values(win)
    /\ ev = "TOGGLE"
    /\ pc = "tick"
    /\ blocks = 0
    /\ ticks = 0
    /\ offered = <<>>
    /\ extended = <<>>
    /\ lastPump = NoPump
    /\ lastStart = "none"
    /\ shown = NoShown
    /\ leftover = <<>>
    /\ produced = <<>>
    /\ lastCall = NoCall

\* if isinstance(self.audio, LoopingWavStream): self.audio.pump()
LivePump ==
    /\ pc = "tick" /\ running
    /\ IF audio.kind = "wav"
       THEN LET r == WavPump(audio, q)
            IN  /\ audio' = r.obj
                /\ q' = r.q
                /\ lastPump' = [called |-> TRUE, running |-> audio.running, c |-> audio.ptr,
                                chunk |-> r.chunk, after |-> r.obj.ptr, len |-> Len(audio.data)]
       ELSE UNCHANGED << audio, q, lastPump >>
    /\ pc' = "collect"
    /\ UNCHANGED << fs, history, maxlen, running, win, ev, val, pa, devices, blocks, ticks,
                    offered, extended, lastStart, shown, leftover, produced, lastCall >>

\* _collect_audio, one turn of its loop: self.history.extend(self.q.get_nowait())
LiveCollectGet ==
    /\ pc = "collect" /\ q # <<>>
    /\ history' = DequeExtend(history, maxlen, Head(q))
    /\ q' = Tail(q)
    /\ UNCHANGED << audio, fs, maxlen, running, win, ev, val, pc, pa, devices, blocks, ticks,
                    offered, extended, lastPump, lastStart, shown, leftover, produced, lastCall >>

\* AudioStream.audio_callback, whenever the driver has a block; the blocks
\* are not told apart.
LiveCallback ==
    /\ pa.active > 0
    /\ q' = PutNowait(q, MeanAxis1(Indata(0)))
    /\ UNCHANGED << audio, fs, history, maxlen, running, win, ev, val, pc, pa, devices, blocks,
                    ticks, offered, extended, lastPump, lastStart, shown, leftover, produced,
                    lastCall >>

\* The next step of the thread that runs the loop.
LiveLoop ==
    \/ ReadTimeout
    \/ LivePump
    \/ LiveCollectGet
    \/ CollectEmpty
    \/ Draw

LiveNext ==
    \/ LiveLoop
    \/ LiveCallback

\* Both threads keep being scheduled: the loop takes its next step, and the
\* driver calls back while its stream runs.
LiveSpec ==
    /\ LiveInit
    /\ [][LiveNext]_vars
    /\ WF_vars(LiveLoop)
    /\ WF_vars(LiveCallback)

\* ------------------------------------------------------------------ the classes on their own
\* One source object, a queue and one history, with start, stop and pump
\* called in any order, a consumer that takes chunks off the queue, and
\* _plot_wave called on the history.
UnitHistory(n) == [i \in 1..n |-> << i, 1 >>]

UnitInit ==
    /\ audio \in {NewLoopingWavStream(f) : f \in WavNames} \cup {NewAudioStream(0, FS)}
    /\ q = <<>>
    /\ fs \in 1..FS
    /\ maxlen = HistoryMaxlen(fs)
    /\ history \in {UnitHistory(n) : n \in 0..Min(MaxHistory, maxlen)}
    /\ running = FALSE
    /\ devices = << NoDevices >>
    /\ win = [SRC |-> devices[1], MODE |-> "Waveform", FMIN |-> FMIN_DEFAULT,
              FMAX |-> FS \div 2, TOGGLE |-> "Start"]
    /\ ev = NoEvent
    /\ val = NoVal
    /\ pc = "unit"
    /\ pa = [open |-> 0, active |-> 0]
    /\ blocks = 0
    /\ ticks = 0
    /\ offered = <<>>
    /\ extended = <<>>
    /\ lastPump = NoPump
    /\ lastStart = "none"
    /\ shown = NoShown
    /\ leftover = <<>>
    /\ produced = <<>>
    /\ lastCall = NoCall

\* The state a call on the source object found.
Before(op) == [op |-> op, audio |-> audio, pa |-> pa, q |-> q]

\* LoopingWavStream.start
UnitWavStart ==
    /\ audio.kind = "wav"
    /\ audio' = WavStart(audio)
    /\ lastCall' = Before("start")
    /\ UNCHANGED << q, fs, history, maxlen, running, win, ev, val, pc, pa, devices, blocks,
                    ticks, offered, extended, lastPump, lastStart, shown, leftover, produced >>

\* LoopingWavStream.stop
UnitWavStop ==
    /\ audio.kind = "wav"
    /\ audio' = WavStop(audio)
    /\ lastCall' = Before("stop")
    /\ UNCHANGED << q, fs, history, maxlen, running, win, ev, val, pc, pa, devices, blocks,
                    ticks, offered, extended, lastPump, lastStart, shown, leftover, produced >>

\* LoopingWavStream.pump
UnitWavPump ==
    /\ audio.kind = "wav"
    /\ LET r == WavPump(audio, q)
       IN  /\ audio' = r.obj
           /\ q' = r.q
    /\ lastCall' = Before("pump")
    /\ UNCHANGED << fs, history, maxlen, running, win, ev, val, pc, pa, devices, blocks,
                    ticks, offered, extended, lastPump, lastStart, shown, leftover, produced >>

\* q.get_nowait() by the consumer
UnitGet ==
    /\ q # <<>>
    /\ q' = Tail(q)
    /\ lastCall' = Before("get")
    /\ UNCHANGED << audio, fs, history, maxlen, running, win, ev, val, pc, pa, devices, blocks,
                    ticks, offered, extended, lastPump, lastStart, shown, leftover, produced >>

\* AudioStream.start, the driver answering with any outcome
UnitMicStart ==
    /\ audio.kind = "mic"
    /\ \E o \in OpenOutcomes :
          LET r == AudioStreamStart(audio, pa, o)
          IN  /\ audio' = r.obj
              /\ pa' = r.pa
    /\ lastCall' = Before("start")
    /\ UNCHANGED << q, fs, history, maxlen, running, win, ev, val, pc, devices, blocks,
                    ticks, offered, extended, lastPump, lastStart, shown, leftover, produced >>

\* AudioStream.stop
UnitMicStop ==
    /\ audio.kind = "mic"
    /\ LET r == AudioStreamStop(audio, pa)
       IN  /\ audio' = r.obj
           /\ pa' = r.pa
    /\ lastCall' = Before("stop")
    /\ UNCHANGED << q, fs, history, maxlen, running, win, ev, val, pc, devices, blocks,
                    ticks, offered, extended, lastPump, lastStart, shown, leftover, produced >>

\* _plot_wave(val) on the history
UnitPlotWave ==
    /\ ~shown.called
    /\ LET v == Values(win)
           p == PlotWave(history, v, fs)
       IN  shown' = [called |-> TRUE, mode |-> v.MODE, FMIN |-> v.FMIN, FMAX |-> v.FMAX,
                     fs |-> fs, result |-> p.result, lo |-> p.lo, hi |-> p.hi, t |-> p.t]
    /\ UNCHANGED << q, audio, fs, history, maxlen, running, win, ev, val, pc, pa, devices,
                    blocks, ticks, offered, extended, lastPump, lastStart,
                    leftover, produced, lastCall >>

UnitNext ==
    \/ UnitWavStart
    \/ UnitWavStop
    \/ UnitWavPump
    \/ UnitGet
    \/ UnitMicStart
    \/ UnitMicStop
    \/ UnitPlotWave

UnitSpec == UnitInit /\ [][UnitNext]_vars

\* ------------------------------------------------------------------ properties
\* C1: the queue never holds more than QueueMaxsize chunks, and what it
\* holds is the oldest QueueMaxsize of the chunks put since the last get
\* (after what that get left in it), in the order they were put: a put on a
\* full queue changes nothing and its chunk is lost.
QueueKeepsOldest ==
    /\ Len(q) <= QueueMaxsize
    /\ q = Take(offered, QueueMaxsize)

\* More chunks were put than the queue takes, and the queue is full.
QueueOverflowed ==
    /\ Len(offered) > QueueMaxsize
    /\ Len(q) = QueueMaxsize

\* C2: when _start has returned from a WAV entry whose load failed, the
\* controller is not running and holds no source.
FailedLoadLeavesNotRunning ==
    (pc = "tick" /\ ev = "TOGGLE" /\ lastStart = "loadFailed")
        => (~running /\ audio = NoAudio)

\* C3: a start that fails for another reason than loading (no valid entry,
\* a device that does not open or start) leaves the run loop alive, not
\* running, with no source held and no stream open.
StartFailureIsNotFatal ==
    lastStart \in {"noSource", "openFail", "startFail"}
        => (pc # "crashed" /\ ~running /\ audio = NoAudio /\ pa.open = 0)

\* C4: every chunk pump() gives to the queue from a running source has
\* BLOCKSIZE samples.
PumpChunkHasBlockSize ==
    (lastPump.called /\ lastPump.running) => Len(lastPump.chunk) = BLOCKSIZE

\* C5: a pump() at cursor c of a buffer of L samples with BLOCKSIZE > L - c
\* emits buffer[c:L] followed by buffer[0:(BLOCKSIZE - (L - c)) mod L] and
\* leaves the cursor at (c + BLOCKSIZE) mod L; with c + BLOCKSIZE < L it
\* emits buffer[c:c+BLOCKSIZE] and leaves the cursor at c + BLOCKSIZE.
PumpWrapsAround ==
    (lastPump.called /\ lastPump.running) =>
        LET c == lastPump.c
            L == lastPump.len
            B == BLOCKSIZE
            buffer == audio.data
        IN  /\ L = Len(buffer)
            /\ (B > L - c) =>
                  /\ lastPump.chunk =
                        SubSeq(buffer, c + 1, L) \o SubSeq(buffer, 1, (B - (L - c)) % L)
                  /\ lastPump.after = (c + B) % L
                  /\ audio.ptr = (c + B) % L
            /\ (c + B < L) =>
                  /\ lastPump.chunk = SubSeq(buffer, c + 1, c + B)
                  /\ lastPump.after = c + B
                  /\ audio.ptr = c + B

\* A pump() that went over the end of the buffer and took samples from its start.
PumpWrapped ==
    /\ lastPump.called /\ lastPump.running
    /\ BLOCKSIZE > lastPump.len - lastPump.c
    /\ lastPump.c > 0
    /\ (lastPump.c + BLOCKSIZE) % lastPump.len > 0
    /\ lastPump.after < lastPump.c

\* C6: the history holds the last min(maxlen, total) samples of everything
\* extended since the deque was made, oldest first, and never more than
\* maxlen, which is HISTORY_SEC times self.fs while the run loop is alive.
HistoryIsLastWindow ==
    /\ pc # "crashed" => maxlen = HISTORY_SEC * fs
    /\ Len(history) <= maxlen
    /\ Len(history) = Min(maxlen, Len(extended))
    /\ \A i \in 1..Len(history) :
          history[i] = extended[Len(extended) - Len(history) + i]

\* More than maxlen samples were extended, by more than one extend, so that
\* samples were evicted.
HistoryEvicted ==
    /\ maxlen > 0
    /\ Len(extended) > maxlen + BLOCKSIZE
    /\ Len(history) = maxlen

\* C7 as stated: an edit of the minimum above the maximum raises the maximum
\* to the new minimum, an edit of the maximum below the minimum lowers the
\* minimum to the new maximum.
ClampMovesOtherBound ==
    /\ (pc = "tick" /\ ev = "FMIN" /\ val.FMIN > val.FMAX)
          => (win.FMIN = val.FMIN /\ win.FMAX = val.FMIN)
    /\ (pc = "tick" /\ ev = "FMAX" /\ val.FMAX < val.FMIN)
          => (win.FMAX = val.FMAX /\ win.FMIN = val.FMAX)
    /\ win.FMIN <= win.FMAX

\* C7 amended: an edit of the minimum above the maximum sets the minimum
\* slider back to the maximum, which keeps its value; an edit of the maximum
\* below the minimum sets the maximum slider back to the minimum, which keeps
\* its value; the sliders then satisfy min <= max.
ClampPullsEditedBoundBack ==
    /\ (pc = "tick" /\ ev = "FMIN" /\ val.FMIN > val.FMAX)
          => (win.FMIN = val.FMAX /\ win.FMAX = val.FMAX)
    /\ (pc = "tick" /\ ev = "FMAX" /\ val.FMAX < val.FMIN)
          => (win.FMAX = val.FMIN /\ win.FMIN = val.FMIN)
    /\ win.FMIN <= win.FMAX

\* An edit that crossed the other slider has been handled.
CrossingEditHandled ==
    /\ pc = "tick"
    /\ \/ ev = "FMIN" /\ val.FMIN > val.FMAX
       \/ ev = "FMAX" /\ val.FMAX < val.FMIN

\* C8: the values every analysis call receives satisfy
\* FMIN <= FMAX <= fs / 2 for the rate of the source in use.
AnalysisParamsInRange ==
    shown.called => (shown.FMIN <= shown.FMAX /\ 2 * shown.FMAX <= shown.fs)

\* C9: at most one source is active: the driver has at most one stream
\* open, an open stream is the one the controller holds, no stream is open
\* while a file source runs, and none is open once the controller holds no
\* source.
AtMostOneSourceActive ==
    /\ pa.open <= 1
    /\ pa.active <= pa.open
    /\ pa.open = 1 => (audio.kind = "mic" /\ audio.stream # "None")
    /\ audio.kind = "wav" => pa.open = 0
    /\ audio = NoAudio => pa.open = 0

\* A file source runs after a capture stream had delivered blocks and was stopped.
SwitchedFromMicToWav ==
    /\ audio.kind = "wav" /\ audio.running
    /\ blocks > 0

\* The rate a running source really has: the one stored in the file, or
\* the one the capture stream was opened with.
ActualRate(a) == IF a.kind = "wav" THEN WavFile(a.filepath).rate ELSE FS

\* C10: when _start has returned with a source delivering, the history is
\* empty and its maxlen is HISTORY_SEC times that source's rate; and while
\* running with such a source, self.fs is that source's rate and the
\* deque's maxlen is HISTORY_SEC times it.
HistorySizedToSource ==
    LET delivering == \/ audio.kind = "wav" /\ audio.running
                      \/ audio.kind = "mic" /\ audio.stream = "active"
    IN  /\ (pc = "tick" /\ ev = "TOGGLE" /\ lastStart = "ok") =>
              (delivering /\ history = <<>> /\ maxlen = HISTORY_SEC * ActualRate(audio))
        /\ (running /\ delivering) =>
              (fs = ActualRate(audio) /\ maxlen = HISTORY_SEC * ActualRate(audio))

\* _start has returned with a file source whose rate is not the capture rate.
StartedFileOfOtherRate ==
    /\ pc = "tick" /\ ev = "TOGGLE" /\ lastStart = "ok"
    /\ audio.kind = "wav" /\ audio.running
    /\ WavFile(audio.filepath).rate # FS

\* C11: every tick drains the queue into the history, whether or not a
\* source is running, so an iteration that ends with no capture stream
\* delivering leaves the queue empty; and in a running tick the order is
\* pump, drain, analysis, so the history the analysis saw ends with the
\* chunk that tick's pump cut.
TickDrainsThenAnalyses ==
    /\ (pc = "read" /\ pa.active = 0) => q = <<>>
    /\ (pc = "read" /\ shown.called /\ lastPump.called /\ lastPump.running) =>
          LET n == Min(Len(lastPump.chunk), Len(history))
          IN  /\ n > 0
              /\ SubSeq(history, Len(history) - n + 1, Len(history))
                    = SubSeq(lastPump.chunk, Len(lastPump.chunk) - n + 1, Len(lastPump.chunk))

\* The history length below which the mode's analysis yields nothing.
MinSamples(mode, a) ==
    CASE mode = "FFT" -> BLOCKSIZE
      [] mode = "Waveform" -> 1
      [] OTHER -> a.fs

\* C12: in a running tick the analysis yields a result exactly when the
\* history holds at least the mode's minimum (FFT: BLOCKSIZE samples,
\* Waveform: one, Spectrogram: as many as the active source's rate); when
\* it yields none it has drawn nothing and the loop goes on.
ResultIffEnoughHistory ==
    shown.called =>
        /\ pc = "read"
        /\ shown.result <=> Len(history) >= MinSamples(shown.mode, audio)
        /\ ~shown.result => (shown.t = <<>> /\ shown.lo = 0 /\ shown.hi = 0)

\* A spectrogram was drawn from a file whose rate is not the capture rate,
\* with fewer than FS samples in the history.
SpectrogramOfShortFile ==
    /\ shown.called /\ shown.mode = "Spectrogram" /\ shown.result
    /\ audio.kind = "wav" /\ audio.fs # FS
    /\ Len(history) < FS

\* C15: chunks leave the queue in the order it accepted them and each one
\* reaches the history once and whole: what was in the queue when the deque
\* was made, followed by every chunk accepted since, is exactly what has
\* been given to history.extend followed by what the queue still holds.
ChunksDeliveredInOrderOnce ==
    /\ leftover \o produced = extended \o Flatten(q)
    /\ Len(q) <= QueueMaxsize

\* During the first drain of a session, after a get, the callback has put
\* more chunks than the queue could take.
PushedDuringDrain ==
    /\ pc = "collect" /\ ticks = 1
    /\ audio.kind = "mic"
    /\ extended # <<>>
    /\ Len(offered) > QueueMaxsize

\* C19: after a start the history holds samples of the source that start
\* opened only: what has been given to the new deque is a prefix of what
\* the new source produced, and no put is dropped while a chunk from
\* before the start is still in the queue.
HistoryOnlyFromNewSource ==
    running =>
        /\ Len(extended) <= Len(produced)
        /\ extended = SubSeq(produced, 1, Len(extended))
        /\ Len(extended) < Len(leftover) => Len(offered) <= QueueMaxsize

\* C20: the cursor of a running file source is always a valid index of its
\* data, 0 <= ptr < len(data), before and after every pump; and it is 0 when
\* _start has just created the source.
CursorInRange ==
    /\ (audio.kind = "wav" /\ audio.running) =>
          (0 <= audio.ptr /\ audio.ptr < Len(audio.data))
    /\ (lastPump.called /\ lastPump.running) =>
          /\ 0 <= lastPump.c /\ lastPump.c < lastPump.len
          /\ 0 <= lastPump.after /\ lastPump.after < lastPump.len
    /\ (pc = "tick" /\ ev = "TOGGLE" /\ audio.kind = "wav") => audio.ptr = 0

\* A pump has left the cursor on the last sample of a longer file.
CursorOnLastSample ==
    /\ audio.kind = "wav" /\ audio.running
    /\ lastPump.called
    /\ Len(audio.data) > 1
    /\ audio.ptr = Len(audio.data) - 1

\* C14: the waveform analysis yields nothing for an empty history; for a
\* history of exactly one sample it yields one pair whose time offset is 0;
\* and whenever it yields pairs there is one per sample and the last one
\* has time offset 0.
WaveformTimesEndAtZero ==
    (shown.called /\ shown.mode = "Waveform") =>
        /\ Len(history) = 0 => ~shown.result
        /\ Len(history) = 1 => (shown.result /\ Len(shown.t) = 1 /\ shown.t[1][1] = 0)
        /\ shown.result => (Len(shown.t) = Len(history) /\ shown.t[Len(shown.t)][1] = 0)

\* C17: a pump() on a file source that is not running, or has no data
\* loaded, leaves the queue and the source (its cursor included) as they
\* were; so does a pump() after stop() and after a start() that failed.
IdlePumpIsNoOp ==
    (lastCall.op = "pump" /\ (~lastCall.audio.running \/ ~lastCall.audio.loaded)) =>
        /\ q = lastCall.q
        /\ audio = lastCall.audio
        /\ audio.ptr = lastCall.audio.ptr

\* pump() was called after stop() on a source whose cursor had moved, with
\* a chunk still in the queue.
PumpedAfterStop ==
    /\ lastCall.op = "pump"
    /\ ~lastCall.audio.running /\ lastCall.audio.loaded
    /\ lastCall.audio.ptr > 0
    /\ q # <<>>

\* C18: start() on a capture source that holds a stream opens no second one
\* and leaves the first untouched; stop() on one that holds none does
\* nothing; after any sequence of calls at most one stream is open, the
\* one the object holds, and none is after a stop().
CaptureStartStopIdempotent ==
    /\ pa.open <= 1 /\ pa.active <= pa.open
    /\ audio.kind = "mic" => (audio.stream = "None" <=> pa.open = 0)
    /\ (audio.kind = "mic" /\ lastCall.op = "start" /\ lastCall.audio.stream # "None") =>
          (audio = lastCall.audio /\ pa = lastCall.pa)
    /\ (audio.kind = "mic" /\ lastCall.op = "stop") =>
          /\ pa.open = 0 /\ pa.active = 0 /\ audio.stream = "None"
          /\ lastCall.audio.stream = "None" => (audio = lastCall.audio /\ pa = lastCall.pa)

\* start() was called on a capture source whose stream was delivering.
StartedTwice ==
    /\ audio.kind = "mic"
    /\ lastCall.op = "start" /\ lastCall.audio.stream = "active"
    /\ pa.open = 1

\* C13: an analysis skipped for want of data is retried until it gives a
\* result: with the loop and the callback scheduled fairly, whenever the
\* analysis of a tick gave nothing, the analysis of a later tick gives a
\* result, in the same mode, for every source _start leaves running.
SkippedAnalysisSucceedsLater ==
    (shown.called /\ ~shown.result) ~> (shown.called /\ shown.result)

\* C16: a drain always ends, also when the callback keeps putting chunks
\* while its loop runs: once _collect_audio is entered, the loop reaches
\* the analysis.
DrainTerminates ==
    (pc = "collect") ~> (pc = "draw")

====
